---- MODULE Spec2Model ----
(***************************************************************************)
(* Turn-based dialogue orchestration of tp2dg: ConversationOrchestrator,   *)
(* the listener and recsys components, the chat session manager, the file  *)
(* processors and call_with_timeout, as one state machine.                 *)
(*                                                                         *)
(* A Track is represented by its track_id; a pool is a sequence of ids     *)
(* (the code never requires the ids of a pool to be distinct).             *)
(***************************************************************************)
EXTENDS Integers, Sequences, FiniteSets, TLC

(* ------------------------------ bounds --------------------------------- *)
MaxPool == 2
MaxLiked == 1
MaxTurns == 3
\* upload calls after which batch_upload_tracks is not called again
MaxUploads == 4

(* ------------------------------ values --------------------------------- *)
TrackIds == {"t1", "t2"}
LikedIds == {"t1"}
\* an id the recsys model may name that belongs to no track
ForeignId == "tx"
\* parsed.get("track_id", "") when the reply has no track_id field
MissingId == ""
None == "None"
Modalities == {"audio", "image"}

SeqsUpTo(S, n) == UNION {[1..k -> S] : k \in 0..n}

Pools == SeqsUpTo(TrackIds, MaxPool)
Likeds == SeqsUpTo(LikedIds, MaxLiked)
NumTurnsChoices == (-1)..MaxTurns
\* which artifact files exist on disk: none, audio only, or both modalities
ArtifactChoices == {{}, TrackIds \X {"audio"}, TrackIds \X Modalities}

(* --------------------------- conversation goal ------------------------ *)
CategoryCodes == {"A", "B", "C", "D", "E", "F", "G", "H", "I", "J", "K", "UNKNOWN"}
SpecificityCodes == {"LL", "LH", "HH", "HL", "UNKNOWN"}
\* parsed["category_code"] raises KeyError when the field is absent
MissingField == "<missing>"
\* (category_code, specificity_code) as parsed from the goal reply
GoalReplies == {<<"A", "LL">>, <<"UNKNOWN", "LL">>, <<"Z", "LL">>, <<"A", MissingField>>}

(* --------------------------- response codes ---------------------------- *)
SUCCESS == "SUCCESS"
NO_TRACK_FOUND == "NO_TRACK_FOUND"

(* ------------------------------ state ---------------------------------- *)
VARIABLES
  liked, pool, num_turns,     \* arguments of generate
  artifacts,                  \* <<track_id, modality>> whose file exists
  pc,                         \* control point of generate
  error,                      \* exception that left the last operation
  cache,                      \* BaseFileProcessor._conversation_cache, per modality
  uploaded,                   \* uploaded_audio_files / uploaded_image_files
  idx,                        \* position of batch_upload_tracks in liked + pool
  listener_profile, conversation_goal,
  recsys_chat, listener_chat, \* ChatSessionManager.recsys_chat / listener_chat
  recsys_llm, listener_llm,   \* RecsysLLM / ListenerLLM fields
  conversation, available, listener_turn, turn_num,
  call,                       \* the model or upload call in flight
  log,                        \* calls issued and sessions created by the current generate
  last_op,                    \* the operation the last step belongs to
  workers,                    \* number of model or upload calls executing right now
  run,                        \* number of generate calls made on the orchestrator
  rng,                        \* state of the module-level generator of `random`
  parallel,                   \* whether the conversations run on threads of their own
  th,                         \* per conversation: its position in goal derivation
  text, expected_keys,        \* arguments of robust_parse_yaml_response
  blocks,                     \* the `<field>: value` blocks the text is made of
  result, fenced_result,      \* the dict returned for the text, bare and fenced
  response,                   \* argument of extract_detailed_token_usage
  usage,                      \* how extract_detailed_token_usage ended
  applied                     \* the functions of utils called so far

vars == <<liked, pool, num_turns, artifacts, pc, error, cache, uploaded, idx,
          listener_profile, conversation_goal, recsys_chat, listener_chat,
          recsys_llm, listener_llm, conversation, available, listener_turn,
          turn_num, call, log, last_op, workers, run, rng, parallel, th, text,
          expected_keys, blocks, result, fenced_result, response, usage, applied>>

inputs == <<liked, pool, num_turns, artifacts>>
sessions == <<recsys_chat, listener_chat>>
components == <<recsys_llm, listener_llm>>
loopvars == <<conversation, available, listener_turn, turn_num>>
setupvars == <<cache, uploaded, idx, listener_profile, conversation_goal>>
sampler == <<rng, parallel, th>>
utils == <<text, expected_keys, blocks, result, fenced_result, response, usage, applied>>
orchestrator == <<inputs, pc, error, setupvars, sessions, components, loopvars, call, log,
                  last_op, workers, run>>

(* ------------------------------ entities ------------------------------- *)
\* a prompt is represented by the template it is formatted from and its arguments
Prompt(kind, n, track, used) == [kind |-> kind, turn_num |-> n, track |-> track, used |-> used]
NoPrompt == Prompt("none", 0, None, <<>>)
\* last_prompt = ""
EmptyPrompt == Prompt("empty", 0, None, <<>>)

\* TokenUsage(): all counts zero
ZeroUsage == [of |-> NoPrompt]
\* extract_detailed_token_usage(response) for the response to a prompt
UsageOf(prompt) == [of |-> prompt]

\* chat_session = None
NoSession == [kind |-> None, run |-> 0]
\* the chat object client.chats.create returns: a new one in every generate call
Session(kind) == [kind |-> kind, run |-> run]

NewComponent ==
  [chat_session |-> NoSession, last_prompt |-> EmptyPrompt, last_token_usage |-> ZeroUsage]

ListenerTurn(n, track) ==
  [turn_number |-> n, reacts_to |-> track, success |-> TRUE, code |-> SUCCESS]

RecsysTurn(n, thought, track, message, success, code) ==
  [turn_number |-> n, thought |-> thought, track |-> track, message |-> message,
   success |-> success, code |-> code]

ConversationTurn(n, lt, rt) == [turn_number |-> n, listener_turn |-> lt, recsys_turn |-> rt]

used_track_ids(turns) ==
  LET withTrack == SelectSeq(turns, LAMBDA t : t.recsys_turn.track # None)
  IN  [i \in 1..Len(withTrack) |-> withTrack[i].recsys_turn.track]

(* ------------------------- call_with_timeout --------------------------- *)
NoResp == [kind |-> "none", val |-> None, val2 |-> None]
NoCall == [site |-> "none", phase |-> "idle", worker |-> "idle", resp |-> NoResp, prompt |-> NoPrompt]

\* executor.submit(func): the worker starts func; the caller enters future.result(timeout)
Submit(site, prompt) ==
  [site |-> site, phase |-> "result_wait", worker |-> "running", resp |-> NoResp, prompt |-> prompt]

\* a call made without call_with_timeout: the caller runs it itself
PlainCall(site, prompt) ==
  [site |-> site, phase |-> "plain_wait", worker |-> "running", resp |-> NoResp, prompt |-> prompt]

\* 1 when the step starts the execution of a call (on a worker thread or, for a
\* plain call, on the caller's own thread), 0 otherwise
Started == IF call.worker # "running" /\ call'.worker = "running" THEN 1 ELSE 0

GenerateSites == {"upload", "profile", "goal", "recsys_setup", "listener_setup",
                  "opening", "recsys", "reaction"}
DirectSites == {"direct_recsys", "direct_opening", "direct_reaction"}

Ok(v) == [kind |-> "ok", val |-> v, val2 |-> None]
\* a goal reply: the two codes as parsed
OkCodes(g) == [kind |-> "ok", val |-> g[1], val2 |-> g[2]]
\* the call raised (an API error)
Raised == [kind |-> "error", val |-> None, val2 |-> None]
\* a response whose text is None: re.sub in robust_parse_yaml_response raises TypeError
NoText == [kind |-> "notext", val |-> None, val2 |-> None]

TextReplies == {Ok("text"), NoText, Raised}

\* what the call at a site can come back with
Replies(site) ==
  CASE site = "upload" -> {Ok("handle"), Raised}
    [] site \in {"recsys_setup", "listener_setup"} -> {Ok("text"), Raised}
    [] site = "goal" -> {OkCodes(g) : g \in GoalReplies} \cup {NoText, Raised}
    [] site \in {"recsys", "direct_recsys"} ->
         {Ok(t) : t \in TrackIds \cup {ForeignId, MissingId}} \cup {NoText, Raised}
    [] OTHER -> TextReplies

\* the worker thread finishes func (with a result or an exception)
WorkerFinish ==
  /\ call.worker = "running"
  /\ \E r \in Replies(call.site) : call' = [call EXCEPT !.worker = "done", !.resp = r]
  /\ UNCHANGED <<inputs, pc, error, setupvars, sessions, components, loopvars, log, last_op>>
  /\ workers' = workers - 1
  /\ UNCHANGED <<run, sampler, utils>>

\* future.result(timeout) raises concurrent.futures.TimeoutError while func still runs;
\* the handler raises TimeoutError, and leaving the with block runs
\* executor.shutdown(wait=True), which joins the worker thread
TimeoutExpires ==
  /\ call.phase = "result_wait"
  /\ call.worker = "running"
  /\ call' = [call EXCEPT !.phase = "shutdown_wait"]
  /\ UNCHANGED <<inputs, pc, error, setupvars, sessions, components, loopvars, log, last_op>>
  /\ workers' = workers + Started
  /\ UNCHANGED <<run, sampler, utils>>

\* the caller has the call's result in hand: future.result returned and the
\* executor's shutdown found the worker finished
Returned(site) ==
  /\ call.site = site
  /\ call.phase \in {"result_wait", "plain_wait"}
  /\ call.worker = "done"

\* shutdown(wait=False): the with block is left while func still runs
JoinedWithoutWait(c) == TRUE

\* leaving `with ThreadPoolExecutor(...)` runs shutdown(wait=True), which
\* returns once the worker thread has finished func
Joined(c) == c.worker = "done"

\* shutdown(wait=True) returns once the worker has finished; only then does the
\* TimeoutError reach the caller of call_with_timeout
TimeoutRaised ==
  /\ call.phase = "shutdown_wait"
  /\ Joined(call)
  /\ call' = NoCall
  /\ error' = "Timeout"
  /\ pc' = IF call.site \in GenerateSites THEN "failed" ELSE pc
  /\ UNCHANGED <<inputs, setupvars, sessions, components, loopvars, log, last_op>>
  /\ workers' = workers + Started
  /\ UNCHANGED <<run, sampler, utils>>

\* the method entered last, with the fields of its component on entry
Op(method, component) == [method |-> method, state_was |-> component]
NoOp == Op("none", NewComponent)

(* -------------------- exceptions leaving generate ---------------------- *)
\* an exception propagates out of generate: no handler in the orchestrator
Fails(kind) ==
  /\ pc' = "failed"
  /\ error' = kind
  /\ call' = NoCall

\* the exception a reply turns into where the caller reads response.text
ReplyError(r) == IF r.kind = "error" THEN "ApiError" ELSE "TypeError"

(* ------------------------- BaseFileProcessor --------------------------- *)
ModalityOf(p) == IF p = "upload_audio" THEN "audio" ELSE "image"

\* liked + pool
AllTracks == liked \o pool

\* os.path.exists(track.get_artifact_path(modality, base_path))
PathExists(t, m) == <<t, m>> \in artifacts

\* {}: a dict without keys
EmptyDict == <<>>

\* d[k] = v
Put(d, k, v) == [x \in DOMAIN d \cup {k} |-> IF x = k THEN v ELSE d[x]]

\* the file handle client.files.upload returns: a new remote file for every
\* upload, identified by the generate call and the number of its upload calls
NewHandle == <<run, Len(log)>>

\* the cache is not consulted
CacheHitNever(t, m) == FALSE

\* cache_key in self._conversation_cache
CacheHit(t, m) == t \in DOMAIN cache[m]

\* orchestrator.generate entered: batch_upload_tracks of the audio processor starts
Generate ==
  /\ pc = "idle"
  /\ call = NoCall
  /\ pc' = "upload_audio"
  /\ idx' = 1
  /\ uploaded' = [m \in Modalities |-> EmptyDict]
  /\ error' = "none"
  /\ log' = <<>>
  /\ last_op' = Op("generate", NewComponent)
  /\ UNCHANGED <<inputs, cache, listener_profile, conversation_goal, sessions,
                 components, loopvars, call>>
  /\ workers' = workers + Started
  /\ run' = run + 1
  /\ UNCHANGED <<sampler, utils>>

\* one iteration of batch_upload_tracks that needs no upload: the file is
\* missing, or upload_file finds the key in the cache
BatchUploadSkip ==
  /\ pc \in {"upload_audio", "upload_image"}
  /\ call = NoCall
  /\ idx <= Len(AllTracks)
  /\ LET t == AllTracks[idx]
         m == ModalityOf(pc)
     IN  /\ ~PathExists(t, m) \/ CacheHit(t, m)
         /\ uploaded' = IF PathExists(t, m)
                         THEN [uploaded EXCEPT ![m] = Put(@, t, cache[m][t])]
                         ELSE uploaded
  /\ idx' = idx + 1
  /\ UNCHANGED <<inputs, pc, error, cache, listener_profile, conversation_goal,
                 sessions, components, loopvars, call, log, last_op>>
  /\ workers' = workers + Started
  /\ UNCHANGED <<run, sampler, utils>>

\* upload_file on a cache miss: call_with_timeout(client.files.upload, timeout=60)
UploadFile ==
  /\ pc \in {"upload_audio", "upload_image"}
  /\ call = NoCall
  /\ idx <= Len(AllTracks)
  /\ PathExists(AllTracks[idx], ModalityOf(pc))
  /\ ~CacheHit(AllTracks[idx], ModalityOf(pc))
  /\ call' = Submit("upload", NoPrompt)
  /\ log' = Append(log, pc)
  /\ UNCHANGED <<inputs, pc, error, setupvars, sessions, components, loopvars, last_op>>
  /\ workers' = workers + Started
  /\ UNCHANGED <<run, sampler, utils>>

\* the upload returned: the cache is written and the handle joins track_files
UploadReturn ==
  /\ Returned("upload")
  /\ IF call.resp.kind = "ok"
     THEN /\ cache' = [cache EXCEPT ![ModalityOf(pc)] = Put(@, AllTracks[idx], NewHandle)]
          /\ uploaded' = [uploaded EXCEPT ![ModalityOf(pc)] = Put(@, AllTracks[idx], NewHandle)]
          /\ idx' = idx + 1
          /\ call' = NoCall
          /\ UNCHANGED <<pc, error>>
     ELSE /\ Fails("ApiError")
          /\ UNCHANGED <<cache, uploaded, idx>>
  /\ UNCHANGED <<inputs, listener_profile, conversation_goal, sessions, components,
                 loopvars, log, last_op>>
  /\ workers' = workers + Started
  /\ UNCHANGED <<run, sampler, utils>>

\* batch_upload_tracks returns: the image batch follows the audio batch, and
\* profile inference follows the image batch
BatchUploadDone ==
  /\ pc \in {"upload_audio", "upload_image"}
  /\ call = NoCall
  /\ idx > Len(AllTracks)
  /\ pc' = IF pc = "upload_audio" THEN "upload_image" ELSE "profile"
  /\ idx' = 1
  /\ UNCHANGED <<inputs, error, cache, uploaded, listener_profile, conversation_goal,
                 sessions, components, loopvars, call, log, last_op>>
  /\ workers' = workers + Started
  /\ UNCHANGED <<run, sampler, utils>>

\* batch_upload_tracks(liked + pool) is called again on the two processors (as
\* the next generate on this orchestrator does), after the earlier batches
\* returned or an upload failed
UploadAgain ==
  /\ pc \in {"profile", "failed"}
  /\ call = NoCall
  /\ Len(log) < MaxUploads
  /\ pc' = "upload_audio"
  /\ idx' = 1
  /\ uploaded' = [m \in Modalities |-> EmptyDict]
  /\ error' = "none"
  /\ UNCHANGED <<inputs, cache, listener_profile, conversation_goal, sessions,
                 components, loopvars, call, log, last_op, workers>>
  /\ UNCHANGED <<run, sampler, utils>>

(* ----------------------------- ProfileLLM ------------------------------ *)
\* generate_from_tracks: call_with_timeout(generate_content, timeout=120)
ProfileRequest ==
  /\ pc = "profile"
  /\ call = NoCall
  /\ call' = Submit("profile", NoPrompt)
  /\ log' = Append(log, "profile")
  /\ UNCHANGED <<inputs, pc, error, setupvars, sessions, components, loopvars, last_op>>
  /\ workers' = workers + Started
  /\ UNCHANGED <<run, sampler, utils>>

\* the reply is parsed and a ListenerProfile built, absent fields defaulting to "Unknown"
ProfileReturn ==
  /\ Returned("profile")
  /\ IF call.resp.kind = "ok"
     THEN /\ listener_profile' = "profile"
          /\ pc' = "goal"
          /\ call' = NoCall
          /\ UNCHANGED error
     ELSE /\ Fails(ReplyError(call.resp))
          /\ UNCHANGED listener_profile
  /\ UNCHANGED <<inputs, cache, uploaded, idx, conversation_goal, sessions, components,
                 loopvars, log, last_op>>
  /\ workers' = workers + Started
  /\ UNCHANGED <<run, sampler, utils>>

(* ------------------------- ConversationGoalLLM ------------------------- *)
\* a goal carries the catalog entry its descriptions and example lists come
\* from, an entry being identified by its (category, specificity) codes
NoGoal ==
  [category_code |-> None, specificity_code |-> None, entry |-> <<None, None>>,
   success |-> FALSE]

\* unknown_conversation_goal(): every description and example is "Unknown"
UnknownGoal ==
  [category_code |-> "UNKNOWN", specificity_code |-> "UNKNOWN",
   entry |-> <<"Unknown", "Unknown">>, success |-> FALSE]

\* get_selectable_codes(): the members other than UNKNOWN, in definition order
SelectableCategories == <<"A", "B", "C", "D", "E", "F", "G", "H", "I", "J", "K">>
SelectableSpecificities == <<"LL", "LH", "HH", "HL">>

\* [(c.value, s.value) for c in ... for s in ...]
Selectable ==
  [i \in 1..(Len(SelectableCategories) * Len(SelectableSpecificities)) |->
     <<SelectableCategories[((i - 1) \div Len(SelectableSpecificities)) + 1],
       SelectableSpecificities[((i - 1) % Len(SelectableSpecificities)) + 1]>>]

\* CONVERSATION_GOALS: one entry for every pair of the cross-product
Catalog == {Selectable[i] : i \in DOMAIN Selectable}

\* find_conversation_goal found nothing: ValueError
NotFound == <<None, None>>

FindConversationGoal(category, specificity) ==
  IF <<category, specificity>> \in Catalog THEN <<category, specificity>> ELSE NotFound

\* the test for the sentinel is missing
IsUnknownNever(category_code, specificity_code) == FALSE

\* category_code == UNKNOWN or specificity_code == UNKNOWN
IsUnknown(category_code, specificity_code) ==
  category_code = "UNKNOWN" \/ specificity_code = "UNKNOWN"

\* from_codes on two enum members; an entry of NotFound stands for the
\* ValueError of find_conversation_goal
from_codes(category_code, specificity_code) ==
  IF IsUnknown(category_code, specificity_code) THEN UnknownGoal
  ELSE [category_code |-> category_code, specificity_code |-> specificity_code,
        entry |-> FindConversationGoal(category_code, specificity_code),
        success |-> TRUE]

\* the keys from_codes looks up in the catalog
LookupKeys(category_code, specificity_code) ==
  IF IsUnknown(category_code, specificity_code) THEN {}
  ELSE {<<category_code, specificity_code>>}

\* ConversationGoal.CategoryCode and .SpecificityCode name the two enums
HasCodeAliasesPresent == TRUE

\* the class ConversationGoal has no attribute CategoryCode or SpecificityCode
\* (the enums are module-level ConversationGoalCategoryCode / ...SpecificityCode)
HasCodeAliases == FALSE

\* the parsed codes are used as they are, outside any try block
GoalFromReplyUnchecked(cat, spe) ==
  [category_code |-> cat, specificity_code |-> spe,
   entry |-> FindConversationGoal(cat, spe), success |-> TRUE]

\* ConversationGoal.from_codes(ConversationGoal.CategoryCode(parsed["category_code"]),
\* ConversationGoal.SpecificityCode(parsed["specificity_code"])) inside try/except:
\* any exception (AttributeError, KeyError, ValueError) gives the unknown goal
GoalFromReply(cat, spe) ==
  IF ~HasCodeAliases THEN UnknownGoal
  ELSE IF cat \notin CategoryCodes \/ spe \notin SpecificityCodes THEN UnknownGoal
  ELSE IF from_codes(cat, spe).entry = NotFound THEN UnknownGoal
  ELSE from_codes(cat, spe)

\* the conversation is started right after goal derivation, the two
\* initialize_*_session calls left out
GoalReturnSkipsInit ==
  /\ call.site = "goal"
  /\ call.phase \in {"result_wait", "plain_wait"}
  /\ call.worker = "done"
  /\ IF call.resp.kind = "ok"
     THEN /\ conversation_goal' = GoalFromReply(call.resp.val, call.resp.val2)
          /\ pc' = "start"
          /\ call' = NoCall
          /\ UNCHANGED error
     ELSE /\ pc' = "failed"
          /\ error' = "TypeError"
          /\ call' = NoCall
          /\ UNCHANGED conversation_goal
  /\ UNCHANGED <<inputs, cache, uploaded, idx, listener_profile, sessions, components,
                 loopvars, log, last_op>>
  /\ workers' = workers + Started
  /\ UNCHANGED <<run, sampler, utils>>

\* generate_from_recommendation_pool: call_with_timeout(generate_content, timeout=180)
GoalRequest ==
  /\ pc = "goal"
  /\ call = NoCall
  /\ call' = Submit("goal", NoPrompt)
  /\ log' = Append(log, "goal")
  /\ UNCHANGED <<inputs, pc, error, setupvars, sessions, components, loopvars, last_op>>
  /\ workers' = workers + Started
  /\ UNCHANGED <<run, sampler, utils>>

\* robust_parse_yaml_response(response.text, ...) is outside the try block
GoalReturn ==
  /\ Returned("goal")
  /\ IF call.resp.kind = "ok"
     THEN /\ conversation_goal' = GoalFromReply(call.resp.val, call.resp.val2)
          /\ pc' = "init_recsys"
          /\ call' = NoCall
          /\ UNCHANGED error
     ELSE /\ Fails(ReplyError(call.resp))
          /\ UNCHANGED conversation_goal
  /\ UNCHANGED <<inputs, cache, uploaded, idx, listener_profile, sessions, components,
                 loopvars, log, last_op>>
  /\ workers' = workers + Started
  /\ UNCHANGED <<run, sampler, utils>>

(* ------------------------- ChatSessionManager -------------------------- *)
\* initialize_recsys_session: chats.create, then recsys_chat.send_message(turn0_contents)
InitializeRecsysSession ==
  /\ pc = "init_recsys"
  /\ call = NoCall
  /\ recsys_chat' = Session("recsys")
  /\ call' = PlainCall("recsys_setup", NoPrompt)
  /\ log' = log \o <<"recsys_create", "recsys_setup">>
  /\ UNCHANGED <<inputs, pc, error, setupvars, listener_chat, components, loopvars, last_op>>
  /\ workers' = workers + Started
  /\ UNCHANGED <<run, sampler, utils>>

RecsysSetupReturn ==
  /\ Returned("recsys_setup")
  /\ IF call.resp.kind = "ok"
     THEN /\ pc' = "init_listener"
          /\ call' = NoCall
          /\ UNCHANGED error
     ELSE Fails("ApiError")
  /\ UNCHANGED <<inputs, setupvars, sessions, components, loopvars, log, last_op>>
  /\ workers' = workers + Started
  /\ UNCHANGED <<run, sampler, utils>>

\* initialize_listener_session: chats.create, and listener_chat.send_message(contents)
\* only if len(previously_liked_tracks) > 0
InitializeListenerSession ==
  /\ pc = "init_listener"
  /\ call = NoCall
  /\ listener_chat' = Session("listener")
  /\ IF Len(liked) > 0
     THEN /\ call' = PlainCall("listener_setup", NoPrompt)
          /\ log' = log \o <<"listener_create", "listener_setup">>
          /\ UNCHANGED pc
     ELSE /\ pc' = "start"
          /\ log' = Append(log, "listener_create")
          /\ UNCHANGED call
  /\ UNCHANGED <<inputs, error, setupvars, recsys_chat, components, loopvars, last_op>>
  /\ workers' = workers + Started
  /\ UNCHANGED <<run, sampler, utils>>

ListenerSetupReturn ==
  /\ Returned("listener_setup")
  /\ IF call.resp.kind = "ok"
     THEN /\ pc' = "start"
          /\ call' = NoCall
          /\ UNCHANGED error
     ELSE Fails("ApiError")
  /\ UNCHANGED <<inputs, setupvars, sessions, components, loopvars, log, last_op>>
  /\ workers' = workers + Started
  /\ UNCHANGED <<run, sampler, utils>>

(* ------------------------ turn requests: guards ------------------------ *)
\* the guard is missing
SessionReadyAlways(component) == TRUE

\* `if not self.chat_session: raise Exception("... chat session not initialized")`
SessionReady(component) == component.chat_session # NoSession

\* set_chat_session
\* the session installed first stays installed
SetChatSessionOnce(component, session) ==
  IF component.chat_session = NoSession
  THEN [component EXCEPT !.chat_session = session]
  ELSE component

SetChatSession(component, session) == [component EXCEPT !.chat_session = session]

\* self.last_prompt = prompt; self.last_token_usage = extract_detailed_token_usage(response)
Record(component, prompt) ==
  [component EXCEPT !.last_prompt = prompt, !.last_token_usage = UsageOf(prompt)]

\* the opening turn, before get_initial_request has returned one
NoTurn == ListenerTurn(0, None)

(* ----------------------- RecsysLLM track matching ---------------------- *)
\* the reply is matched against the whole recommendation pool
MatchTrackInPool(tracks, track_id) ==
  IF \E i \in 1..Len(pool) : pool[i] = track_id THEN track_id ELSE None

\* `for track in available_tracks: if track.track_id == track_id: ... break`
MatchTrack(tracks, track_id) ==
  IF \E i \in 1..Len(tracks) : tracks[i] = track_id
  THEN tracks[CHOOSE i \in 1..Len(tracks) :
                /\ tracks[i] = track_id
                /\ \A j \in 1..(i - 1) : tracks[j] # track_id]
  ELSE None

\* the RecsysTurn built from the parsed reply
RecsysTurnFor(n, tracks, track_id) ==
  IF MatchTrack(tracks, track_id) = None
  THEN RecsysTurn(n, "No match", None, "No track found", FALSE, NO_TRACK_FOUND)
  ELSE RecsysTurn(n, "thought", MatchTrack(tracks, track_id), "message", TRUE, SUCCESS)

(* ------------------- ConversationOrchestrator.generate ----------------- *)
\* no track is removed after a recommendation
RemoveUsedNothing(tracks, track) == tracks

\* the filter runs over the caller's pool instead of the working pool
RemoveUsedFromPool(tracks, track) == SelectSeq(pool, LAMBDA t : ~(track # None /\ t = track))

\* available = [t for t in available
\*              if not (recsys_turn.track and t.track_id == recsys_turn.track.track_id)]
RemoveUsed(tracks, track) == SelectSeq(tracks, LAMBDA t : ~(track # None /\ t = track))

\* range(1, num_turns): the last iteration is lost
InRangeOneLess(n, budget) == n < budget

\* range(1, num_turns + 2): one iteration too many
InRangeOneMore(n, budget) == n <= budget + 1

\* `for turn_num in range(1, num_turns + 1)` has a next value
InRange(n, budget) == n <= budget

\* the loop has no early exit
PoolNeverEmpty(tracks) == FALSE

\* `if not available`
PoolEmpty(tracks) == tracks = <<>>

\* no reaction is ever requested
WantsReactionNever(n, budget, recsys_turn) == FALSE

\* `if turn_num < num_turns`: a reaction is requested to a turn without a track
WantsReactionAlways(n, budget, recsys_turn) == n < budget

\* `if turn_num < num_turns and recsys_turn.track`
WantsReaction(n, budget, recsys_turn) == n < budget /\ recsys_turn.track # None

\* lines 43-48: the sessions are installed in the components, the conversation
\* and the working pool are created, and the listener's opening turn is requested
StartConversation ==
  /\ pc = "start"
  /\ call = NoCall
  /\ recsys_llm' = SetChatSession(recsys_llm, recsys_chat)
  /\ listener_llm' = SetChatSession(listener_llm, listener_chat)
  /\ conversation' = <<>>
  /\ available' = pool
  /\ last_op' = Op("get_initial_request", listener_llm')
  /\ IF SessionReady(listener_llm')
     THEN /\ call' = Submit("opening", Prompt("listener_first_turn", 1, None, <<>>))
          /\ log' = Append(log, "opening")
          /\ pc' = "opening"
          /\ UNCHANGED error
     ELSE /\ Fails("UninitializedSession")
          /\ UNCHANGED log
  /\ UNCHANGED <<inputs, setupvars, sessions, listener_turn, turn_num>>
  /\ workers' = workers + Started
  /\ UNCHANGED <<run, sampler, utils>>

\* get_initial_request returns ListenerTurn(turn_number=1, ...); the for loop starts
OpeningReturn ==
  /\ Returned("opening")
  /\ IF call.resp.kind = "ok"
     THEN /\ listener_llm' = Record(listener_llm, call.prompt)
          /\ listener_turn' = ListenerTurn(1, None)
          /\ turn_num' = 1
          /\ pc' = "loop"
          /\ call' = NoCall
          /\ UNCHANGED error
     ELSE /\ listener_llm' = IF call.resp.kind = "notext"
                              THEN Record(listener_llm, call.prompt)
                              ELSE listener_llm
          /\ Fails(ReplyError(call.resp))
          /\ UNCHANGED <<listener_turn, turn_num>>
  /\ UNCHANGED <<inputs, setupvars, sessions, recsys_llm, conversation, available,
                 log, last_op>>
  /\ workers' = workers + Started
  /\ UNCHANGED <<run, sampler, utils>>

\* the for loop is exhausted, or `if not available: break`
LoopExit ==
  /\ pc = "loop"
  /\ call = NoCall
  /\ ~InRange(turn_num, num_turns) \/ PoolEmpty(available)
  /\ pc' = "done"
  /\ UNCHANGED <<inputs, error, setupvars, sessions, components, loopvars, call, log,
                 last_op>>
  /\ workers' = workers + Started
  /\ UNCHANGED <<run, sampler, utils>>

\* get_recommendation_with_thought up to call_with_timeout(send_message, timeout=120)
RecsysRequest ==
  /\ pc = "loop"
  /\ call = NoCall
  /\ InRange(turn_num, num_turns)
  /\ ~PoolEmpty(available)
  /\ last_op' = Op("get_recommendation_with_thought", recsys_llm)
  /\ IF SessionReady(recsys_llm)
     THEN /\ call' = Submit("recsys", Prompt("recsys_following_turns", turn_num, None,
                                            used_track_ids(conversation)))
          /\ log' = Append(log, "recsys")
          /\ UNCHANGED <<pc, error>>
     ELSE /\ Fails("UninitializedSession")
          /\ UNCHANGED log
  /\ UNCHANGED <<inputs, setupvars, sessions, components, loopvars>>
  /\ workers' = workers + Started
  /\ UNCHANGED <<run, sampler, utils>>

\* the rest of iteration turn_num: the RecsysTurn is built, the ConversationTurn
\* appended, the used track removed, and the listener's reaction requested
RecsysReturn ==
  /\ Returned("recsys")
  /\ IF call.resp.kind = "ok"
     THEN LET recsys_turn == RecsysTurnFor(turn_num, available, call.resp.val)
          IN  /\ recsys_llm' = Record(recsys_llm, call.prompt)
              /\ conversation' =
                   Append(conversation, ConversationTurn(turn_num, listener_turn, recsys_turn))
              /\ available' = RemoveUsed(available, recsys_turn.track)
              /\ IF WantsReaction(turn_num, num_turns, recsys_turn)
                 THEN /\ last_op' = Op("get_reaction_with_thought", listener_llm)
                      /\ IF SessionReady(listener_llm)
                         THEN /\ call' = Submit("reaction",
                                         Prompt("reaction_turn", turn_num + 1,
                                                recsys_turn.track, <<>>))
                              /\ log' = Append(log, "reaction")
                              /\ UNCHANGED <<pc, error>>
                         ELSE /\ Fails("UninitializedSession")
                              /\ UNCHANGED log
                      /\ UNCHANGED turn_num
                 ELSE /\ turn_num' = turn_num + 1
                      /\ call' = NoCall
                      /\ UNCHANGED <<pc, error, log, last_op>>
     ELSE /\ recsys_llm' = IF call.resp.kind = "notext"
                            THEN Record(recsys_llm, call.prompt)
                            ELSE recsys_llm
          /\ Fails(ReplyError(call.resp))
          /\ UNCHANGED <<conversation, available, turn_num, log, last_op>>
  /\ UNCHANGED <<inputs, setupvars, sessions, listener_llm, listener_turn>>
  /\ workers' = workers + Started
  /\ UNCHANGED <<run, sampler, utils>>

\* get_reaction_with_thought returns ListenerTurn(turn_number=turn_num + 1, ...)
ReactionReturn ==
  /\ Returned("reaction")
  /\ IF call.resp.kind = "ok"
     THEN /\ listener_llm' = Record(listener_llm, call.prompt)
          /\ listener_turn' = ListenerTurn(call.prompt.turn_num, call.prompt.track)
          /\ turn_num' = turn_num + 1
          /\ call' = NoCall
          /\ UNCHANGED <<pc, error>>
     ELSE /\ listener_llm' = IF call.resp.kind = "notext"
                              THEN Record(listener_llm, call.prompt)
                              ELSE listener_llm
          /\ Fails(ReplyError(call.resp))
          /\ UNCHANGED <<listener_turn, turn_num>>
  /\ UNCHANGED <<inputs, setupvars, sessions, recsys_llm, conversation, available,
                 log, last_op>>
  /\ workers' = workers + Started
  /\ UNCHANGED <<run, sampler, utils>>

(* ------------- turn requests made outside generate --------------------- *)
Methods == {"get_recommendation_with_thought", "get_initial_request",
            "get_reaction_with_thought"}

DirectSite(method) ==
  CASE method = "get_recommendation_with_thought" -> "direct_recsys"
    [] method = "get_initial_request" -> "direct_opening"
    [] OTHER -> "direct_reaction"

OnRecsys(x) == x \in {"get_recommendation_with_thought", "direct_recsys"}

ComponentOf(x) == IF OnRecsys(x) THEN recsys_llm ELSE listener_llm

\* a caller of the orchestrator's components requests a turn while no generate runs
DirectRequest ==
  /\ pc \in {"idle", "failed"}
  /\ call = NoCall
  /\ \E method \in Methods :
       /\ last_op' = Op(method, ComponentOf(method))
       /\ IF SessionReady(ComponentOf(method))
          THEN /\ call' = Submit(DirectSite(method), Prompt(method, 0, None, <<>>))
               /\ error' = "none"
          ELSE /\ error' = "UninitializedSession"
               /\ UNCHANGED call
  /\ UNCHANGED <<inputs, pc, setupvars, sessions, components, loopvars, log>>
  /\ workers' = workers + Started
  /\ UNCHANGED <<run, sampler, utils>>

\* the turn record goes back to that caller
DirectReturn ==
  /\ \E site \in DirectSites : Returned(site)
  /\ LET after == IF call.resp.kind = "error"
                  THEN ComponentOf(call.site)
                  ELSE Record(ComponentOf(call.site), call.prompt)
     IN  /\ recsys_llm' = IF OnRecsys(call.site) THEN after ELSE recsys_llm
         /\ listener_llm' = IF OnRecsys(call.site) THEN listener_llm ELSE after
  /\ error' = IF call.resp.kind = "ok" THEN "none" ELSE ReplyError(call.resp)
  /\ call' = NoCall
  /\ UNCHANGED <<inputs, pc, setupvars, sessions, loopvars, log, last_op>>
  /\ workers' = workers + Started
  /\ UNCHANGED <<run, sampler, utils>>

(* ------------------- utils: robust_parse_yaml_response ----------------- *)
(* A text is a sequence of tokens: a token is a word (a maximal run of \w   *)
(* characters), a space, a newline, a colon, a quote character (double or   *)
(* single) or a fence marker (three backticks). No word of the texts        *)
(* considered contains a field name as a proper part.                       *)
SP == "<sp>"
NL == "<nl>"
COLON == "<colon>"
QUOTE == "<dquote>"
APOS == "<squote>"
FENCE == "<fence>"

Quotes == {QUOTE, APOS}
IsSpace(t) == t \in {SP, NL}
RECURSIVE DropWords(_)
\* the rest after `\w*`: the leading word tokens are gone
DropWords(s) ==
  IF s # <<>> /\ Head(s) \notin {SP, NL, COLON, QUOTE, APOS, FENCE}
  THEN DropWords(Tail(s))
  ELSE s

RECURSIVE StripFenceOpen(_)
\* re.sub(r"```\w*\n?", "", text): every fence marker of the text goes, with the
\* word characters and the one newline that follow it
StripFenceOpen(s) ==
  IF s = <<>> THEN <<>>
  ELSE IF Head(s) = FENCE
       THEN LET w == DropWords(Tail(s))
            IN  StripFenceOpen(IF w # <<>> /\ Head(w) = NL THEN Tail(w) ELSE w)
  ELSE <<Head(s)>> \o StripFenceOpen(Tail(s))

RECURSIVE StripFenceClose(_)
\* re.sub(r"\n```", "", clean_text)
StripFenceClose(s) ==
  IF s = <<>> THEN <<>>
  ELSE IF Len(s) >= 2 /\ s[1] = NL /\ s[2] = FENCE THEN StripFenceClose(Tail(Tail(s)))
  ELSE <<Head(s)>> \o StripFenceClose(Tail(s))

RECURSIVE LStrip(_)
LStrip(s) == IF s # <<>> /\ IsSpace(Head(s)) THEN LStrip(Tail(s)) ELSE s

RECURSIVE RStrip(_)
RStrip(s) ==
  IF s # <<>> /\ IsSpace(s[Len(s)]) THEN RStrip(SubSeq(s, 1, Len(s) - 1)) ELSE s

\* str.strip()
Strip(s) == RStrip(LStrip(s))

Least(S) == CHOOSE x \in S : \A y \in S : x <= y

\* index of the colon of `key\s*:` matched at index i, 0 without a match
ColonOf(s, i, key) ==
  IF s[i] # key THEN 0
  ELSE LET colons == {j \in (i + 1)..Len(s) :
                        s[j] = COLON /\ \A k \in (i + 1)..(j - 1) : IsSpace(s[k])}
       IN  IF colons = {} THEN 0 ELSE Least(colons)

\* lines 60-65: the start of the first match of ^key\s*: (with re.MULTILINE, at
\* the start of a line) and, without one, of key\s*: anywhere; 0 when the key is
\* not located
KeyPosition(s, key) ==
  LET anchored == {i \in 1..Len(s) :
                     (i = 1 \/ s[i - 1] = NL) /\ ColonOf(s, i, key) > 0}
      anywhere == {i \in 1..Len(s) : ColonOf(s, i, key) > 0}
  IN  IF anchored # {} THEN Least(anchored)
      ELSE IF anywhere # {} THEN Least(anywhere)
      ELSE 0

\* lines 58-66: the located keys, with their positions
key_positions(s, keys) ==
  {<<KeyPosition(s, keys[i]), keys[i]>> :
     i \in {j \in DOMAIN keys : KeyPosition(s, keys[j]) > 0}}

\* lines 67-72: the section of a key ends where the next located key starts
SectionEnd(s, keys, start_pos) ==
  LET later == {p[1] : p \in {q \in key_positions(s, keys) : q[1] > start_pos}}
  IN  IF later = {} THEN Len(s) ELSE Least(later) - 1

\* re.sub(r'^["\']|["\']$', "", value): a quote character at the start goes and
\* a quote character at the end goes, each on its own
StripQuotes(v) ==
  LET a == IF v # <<>> /\ Head(v) \in Quotes THEN Tail(v) ELSE v
  IN  IF a # <<>> /\ a[Len(a)] \in Quotes THEN SubSeq(a, 1, Len(a) - 1) ELSE a

RECURSIVE SplitLines(_)
\* value.split("\n")
SplitLines(v) ==
  IF \A i \in 1..Len(v) : v[i] # NL THEN <<v>>
  ELSE LET n == Least({i \in 1..Len(v) : v[i] = NL})
       IN  <<SubSeq(v, 1, n - 1)>> \o SplitLines(SubSeq(v, n + 1, Len(v)))

RECURSIVE Join(_)
\* " ".join(processed_lines)
Join(ls) ==
  IF ls = <<>> THEN <<>>
  ELSE IF Len(ls) = 1 THEN ls[1]
  ELSE ls[1] \o <<SP>> \o Join(Tail(ls))

RECURSIVE Collapse(_)
\* re.sub(r"\s+", " ", value)
Collapse(v) ==
  IF v = <<>> THEN <<>>
  ELSE IF IsSpace(Head(v)) THEN <<SP>> \o Collapse(LStrip(v))
  ELSE <<Head(v)>> \o Collapse(Tail(v))

\* lines 78-85
OneLine(v) ==
  LET lines == SplitLines(v)
      stripped == [i \in DOMAIN lines |-> Strip(lines[i])]
      processed_lines == SelectSeq(stripped, LAMBDA l : l # <<>>)
  IN  Strip(Collapse(Join(processed_lines)))

\* lines 73-85 for the key located at start_pos: group(1) of
\* ^key\s*:\s*(.+) in the section, stripped, without its quotes, on one line;
\* empty when nothing follows the colon
ValueAt(s, keys, start_pos, key) ==
  LET end_pos == SectionEnd(s, keys, start_pos)
      colon == ColonOf(s, start_pos, key)
  IN  IF colon >= end_pos THEN <<>>
      ELSE OneLine(StripQuotes(Strip(SubSeq(s, colon + 1, end_pos))))

\* the dict returned: the keys located whose value is not empty
robust_parse_yaml_response(s, keys) ==
  LET clean_text == Strip(StripFenceClose(StripFenceOpen(s)))
      located == key_positions(clean_text, keys)
      value == [p \in located |-> ValueAt(clean_text, keys, p[1], p[2])]
      found == {p \in located : value[p] # <<>>}
  IN  [k \in {p[2] : p \in found} |->
         value[CHOOSE p \in found : p[2] = k]]

\* the values a reply gives to a field
Values ==
  { <<"Hello", SP, "world">>,
    <<"T7">>,
    <<"Hello", NL, SP, SP, "world">>,
    <<NL, SP, "multi", NL, NL, SP, "line", SP, SP, "x">>,
    <<QUOTE, "Nice", SP, "one", QUOTE>>,
    <<QUOTE, "Hello">>,
    <<"say", SP, QUOTE, "hi", QUOTE>>,
    <<"it", APOS, "s">>,
    <<"try", SP, FENCE, "python", SP, "here">>,
    <<"a", SP, COLON, SP, "b">>,
    <<"see", SP, "message", COLON, SP, "no">> }

RECURSIVE TextOf(_)
\* the `<field>: value` blocks, one after the other, each label at a line start
TextOf(bs) ==
  LET block == <<bs[1].field, COLON, SP>> \o bs[1].value
  IN  IF Len(bs) = 1 THEN block ELSE block \o <<NL>> \o TextOf(Tail(bs))

\* one block per expected field, in any order
BlockLists(keys) ==
  {bs \in [1..Len(keys) -> [field : {keys[i] : i \in DOMAIN keys}, value : Values]] :
     \A i, j \in 1..Len(keys) : i # j => bs[i].field # bs[j].field}

(* ------------------- utils: extract_detailed_token_usage --------------- *)
\* the dataclass; an Optional field is {} for None and {x} for the value x
TokenUsage(t, i, a, o, prompt_details, response_details) ==
  [input_text_tokens |-> t, input_image_tokens |-> i,
   input_audio_tokens |-> a, output_tokens |-> o,
   prompt_details |-> prompt_details, response_details |-> response_details]

\* TokenUsage()
DefaultTokenUsage == TokenUsage(0, 0, 0, 0, {}, {})

\* how a call ends: it returns a value or it raises
Return(v) == [raised |-> FALSE, value |-> v]
Raise == [raised |-> TRUE, value |-> DefaultTokenUsage]

\* dict.get(key, default)
Get(d, k, default) == IF k \in DOMAIN d THEN d[k] ELSE default

\* longest prompt_tokens_details list considered
MaxDetails == 2

\* an item of prompt_tokens_details that is not a dict
NotADict == [broken |-> TRUE]

\* the items of prompt_tokens_details: a dict with or without its fields, or
\* something that is not a dict
DetailItems ==
  [modality : {"TEXT", "IMAGE", "AUDIO"}, token_count : {2, 5}]
    \cup [modality : {"TEXT", "IMAGE", "AUDIO"}]
    \cup [token_count : {2, 5}] \cup {EmptyDict, NotADict}

\* usage_metadata as a dict
MetadataDicts ==
  {EmptyDict}
    \cup [prompt_token_count : {2, 5}]
    \cup [prompt_token_count : {2, 5}, candidates_token_count : {2, 5}]
    \cup [prompt_tokens_details : SeqsUpTo(DetailItems, MaxDetails),
          prompt_token_count : {2, 5}, candidates_token_count : {2, 5}]

\* the response handed in. kind: None; an object without to_json_dict; an
\* object whose to_json_dict raises; an object converted to response_dict.
\* usage_metadata of response_dict: absent, None, a non-empty string, or a dict
NoResponse == [kind |-> "None", usage_metadata |-> "absent", fields |-> EmptyDict]
Responses ==
  [kind : {"None", "no_to_json_dict", "to_json_dict_raises"},
   usage_metadata : {"absent"}, fields : {EmptyDict}]
    \cup [kind : {"converted"}, usage_metadata : {"absent", "None", "str"},
          fields : {EmptyDict}]
    \cup [kind : {"converted"}, usage_metadata : {"dict"}, fields : MetadataDicts]

RECURSIVE SumOf(_, _)
\* lines 31-39: the token counts of the items of one kind; the modality is
\* lower-cased and looked up for "audio", then for "image"
SumOf(items, kind) ==
  IF items = <<>> THEN 0
  ELSE LET modality == Get(Head(items), "modality", "")
           token_count == Get(Head(items), "token_count", 0)
           mine == CASE modality = "AUDIO" -> "audio"
                     [] modality = "IMAGE" -> "image"
                     [] OTHER -> "text"
       IN  (IF mine = kind THEN token_count ELSE 0) + SumOf(Tail(items), kind)

\* lines 18-47: the body of the try block. item.get on an item that is not a
\* dict and usage_metadata.get on a string raise AttributeError
UsageBody(r) ==
  IF r.kind \in {"None", "no_to_json_dict"} THEN Return(DefaultTokenUsage)
  ELSE IF r.kind = "to_json_dict_raises" THEN Raise
  ELSE IF r.usage_metadata \in {"absent", "None"} THEN Return(DefaultTokenUsage)
  ELSE IF r.usage_metadata = "str" THEN Raise
  ELSE IF DOMAIN r.fields = {} THEN Return(DefaultTokenUsage)
  ELSE LET usage_metadata == r.fields
           prompt_details == Get(usage_metadata, "prompt_tokens_details", <<>>)
           response_details == Get(usage_metadata, "candidates_tokens_details", <<>>)
       IN  IF \E i \in 1..Len(prompt_details) : prompt_details[i] = NotADict
           THEN Raise
           ELSE Return(TokenUsage(
                  IF prompt_details = <<>>
                  THEN Get(usage_metadata, "prompt_token_count", 0)
                  ELSE SumOf(prompt_details, "text"),
                  SumOf(prompt_details, "image"),
                  SumOf(prompt_details, "audio"),
                  Get(usage_metadata, "candidates_token_count", 0),
                  {prompt_details}, {response_details}))

\* no except clause
Unguarded(outcome) == outcome

\* lines 48-49: except Exception: return TokenUsage()
Guarded(outcome) == IF outcome.raised THEN Return(DefaultTokenUsage) ELSE outcome

extract_detailed_token_usage(r) == Guarded(UsageBody(r))

(* ------------------------- utils: the two calls ------------------------ *)
\* nothing of utils has been called
UtilsIdle ==
  /\ text = <<>>
  /\ blocks = <<>>
  /\ expected_keys = <<>>
  /\ result = EmptyDict
  /\ fenced_result = EmptyDict
  /\ response = NoResponse
  /\ usage = Return(DefaultTokenUsage)
  /\ applied = {}

\* robust_parse_yaml_response(text, expected_keys)
Parse ==
  /\ "parse" \notin applied
  /\ result' = robust_parse_yaml_response(text, expected_keys)
  /\ applied' = applied \cup {"parse"}
  /\ UNCHANGED <<text, expected_keys, blocks, fenced_result, response, usage>>
  /\ UNCHANGED <<orchestrator, sampler>>

\* robust_parse_yaml_response on the same text inside ```yaml ... ```
ParseFenced ==
  /\ "parse_fenced" \notin applied
  /\ fenced_result' =
       robust_parse_yaml_response(<<FENCE, "yaml", NL>> \o text \o <<NL, FENCE>>,
                                  expected_keys)
  /\ applied' = applied \cup {"parse_fenced"}
  /\ UNCHANGED <<text, expected_keys, blocks, result, response, usage>>
  /\ UNCHANGED <<orchestrator, sampler>>

\* extract_detailed_token_usage(response)
ExtractUsage ==
  /\ "usage" \notin applied
  /\ usage' = extract_detailed_token_usage(response)
  /\ applied' = applied \cup {"usage"}
  /\ UNCHANGED <<text, expected_keys, blocks, result, fenced_result, response>>
  /\ UNCHANGED <<orchestrator, sampler>>

(* ------------------------------ GoalSampler ---------------------------- *)
Conversations == {1, 2}

\* seeds given to ConversationOrchestrator(seed=...) and sample_conversation_goals
Seeds == {7, 42}

GOALS_TO_SAMPLE == 3

\* num_goals values: rejected ones, one, the value generate uses, the size of
\* the cross-product and one more
SampleSizes == {-1, 0, 1, GOALS_TO_SAMPLE, Len(Selectable), Len(Selectable) + 1}

\* the module-level generator of `random`, as a linear congruential generator
RngMod == 65536

\* random.seed(seed): the state is a function of the seed alone
SeedState(seed) == seed % RngMod

\* the state after one draw
NextState(r) == (25173 * r + 13849) % RngMod

\* _randbelow(n): the value drawn from state r
RandBelow(r, n) == (NextState(r) \div 64) % n

\* random.shuffle(x): for i in reversed(range(1, len(x))):
\*   j = randbelow(i + 1); x[i], x[j] = x[j], x[i]
RECURSIVE Shuffle(_, _, _)
Shuffle(x, r, i) ==
  IF i < 2 THEN [list |-> x, rng |-> r]
  ELSE LET j == RandBelow(r, i) + 1
       IN  Shuffle([x EXCEPT ![i] = x[j], ![j] = x[i]], NextState(r), i - 1)

\* random.seed(seed) comes first, before num_goals is looked at
SeedThenCheck(r, seed, num_goals) == SeedState(seed)

\* the generator is left as it is
SeedNever(r, seed, num_goals) == r

\* lines 78-80: `if num_goals <= 0: raise ValueError`, then random.seed(seed)
SeedIfValid(r, seed, num_goals) == IF num_goals <= 0 THEN r ELSE SeedState(seed)

\* `if len(selected) > num_goals: break`
TakeOneMore(x, num_goals) ==
  SubSeq(x, 1, IF num_goals + 1 < Len(x) THEN num_goals + 1 ELSE Len(x))

\* the loop appends one goal per pair and breaks at len(selected) >= num_goals
Take(x, num_goals) == SubSeq(x, 1, IF num_goals < Len(x) THEN num_goals ELSE Len(x))

\* a conversation whose orchestrator is not constructed yet
NewConversation ==
  [pc |-> "new", seed |-> 0, num_goals |-> 0, shuffled |-> <<>>, candidates |-> <<>>,
   category |-> None, specificity |-> None, goal |-> NoGoal, lookups |-> {},
   error |-> "none"]

\* all conversations on one thread: a call of sample_conversation_goals runs
\* to its end before anything else runs
MayStep(c) == parallel \/ \A d \in Conversations \ {c} : th[d].pc # "seeded"

\* ConversationOrchestrator(seed=...): random.seed(seed)
Construct(c) ==
  /\ th[c].pc = "new"
  /\ MayStep(c)
  /\ \E seed \in Seeds : rng' = SeedState(seed)
  /\ th' = [th EXCEPT ![c].pc = "ready"]
  /\ UNCHANGED <<parallel, orchestrator, utils>>

\* sample_conversation_goals(seed, num_goals) up to random.seed(seed)
SampleEnter(c) ==
  /\ th[c].pc = "ready"
  /\ MayStep(c)
  /\ \E seed \in Seeds, num_goals \in SampleSizes :
       /\ rng' = SeedIfValid(rng, seed, num_goals)
       /\ th' = [th EXCEPT ![c].seed = seed, ![c].num_goals = num_goals,
                           ![c].pc = IF num_goals <= 0 THEN "raised" ELSE "seeded",
                           ![c].error = IF num_goals <= 0 THEN "ValueError" ELSE "none"]
  /\ UNCHANGED <<parallel, orchestrator, utils>>

\* the rest of sample_conversation_goals: the shuffle and the selection loop
SampleShuffle(c) ==
  /\ th[c].pc = "seeded"
  /\ \E sh \in {Shuffle(Selectable, rng, Len(Selectable))} :
     \E taken \in {Take(sh.list, th[c].num_goals)} :
     \E found \in {\A i \in 1..Len(taken) :
                     FindConversationGoal(taken[i][1], taken[i][2]) # NotFound} :
         /\ rng' = sh.rng
         /\ th' = [th EXCEPT
                     ![c].shuffled = sh.list,
                     ![c].lookups = @ \cup {taken[i] : i \in 1..Len(taken)},
                     ![c].candidates =
                        IF found
                        THEN [i \in 1..Len(taken) |-> from_codes(taken[i][1], taken[i][2])]
                        ELSE <<>>,
                     ![c].pc = IF found THEN "sampled" ELSE "raised",
                     ![c].error = IF found THEN "none" ELSE "ValueError"]
  /\ UNCHANGED <<parallel, orchestrator, utils>>

\* generate_from_recommendation_pool after the model's reply: the reply is
\* parsed and turned into a goal
DeriveGoal(c) ==
  /\ th[c].pc = "sampled"
  /\ th[c].num_goals = GOALS_TO_SAMPLE
  /\ MayStep(c)
  /\ \E reply \in GoalReplies :
       th' = [th EXCEPT ![c].category = reply[1], ![c].specificity = reply[2],
                        ![c].goal = GoalFromReply(reply[1], reply[2]),
                        ![c].pc = "derived"]
  /\ UNCHANGED <<rng, parallel, orchestrator, utils>>

\* ConversationGoal.from_codes called with two enum members
FromCodes(c) ==
  /\ th[c].pc = "ready"
  /\ MayStep(c)
  /\ \E category_code \in CategoryCodes, specificity_code \in SpecificityCodes :
       LET goal == from_codes(category_code, specificity_code)
       IN  th' = [th EXCEPT
                   ![c].category = category_code,
                   ![c].specificity = specificity_code,
                   ![c].lookups = @ \cup LookupKeys(category_code, specificity_code),
                   ![c].goal = IF goal.entry = NotFound THEN NoGoal ELSE goal,
                   ![c].error = IF goal.entry = NotFound THEN "ValueError" ELSE "none",
                   ![c].pc = IF goal.entry = NotFound THEN "raised" ELSE "converted"]
  /\ UNCHANGED <<rng, parallel, orchestrator, utils>>

\* no generate runs; the conversations run one after another or in parallel
SamplerInit ==
  /\ liked = <<>>
  /\ pool = <<>>
  /\ num_turns = 0
  /\ artifacts = {}
  /\ pc = "idle"
  /\ error = "none"
  /\ cache = [m \in Modalities |-> EmptyDict]
  /\ uploaded = [m \in Modalities |-> EmptyDict]
  /\ idx = 1
  /\ listener_profile = None
  /\ conversation_goal = NoGoal
  /\ recsys_chat = NoSession
  /\ listener_chat = NoSession
  /\ recsys_llm = NewComponent
  /\ listener_llm = NewComponent
  /\ conversation = <<>>
  /\ available = <<>>
  /\ listener_turn = NoTurn
  /\ turn_num = 0
  /\ call = NoCall
  /\ log = <<>>
  /\ last_op = NoOp
  /\ workers = 0
  /\ run = 0
  /\ rng = 0
  /\ parallel \in BOOLEAN
  /\ th = [c \in Conversations |-> NewConversation]
  /\ UtilsIdle

SamplerNext ==
  \E c \in Conversations :
    \/ Construct(c)
    \/ SampleEnter(c)
    \/ SampleShuffle(c)
    \/ DeriveGoal(c)
    \/ FromCodes(c)

SamplerSpec == SamplerInit /\ [][SamplerNext]_vars

\* the orchestrator and the goal sampler stay as built
OrchestratorIdle ==
  /\ liked = <<>>
  /\ pool = <<>>
  /\ num_turns = 0
  /\ artifacts = {}
  /\ pc = "idle"
  /\ error = "none"
  /\ cache = [m \in Modalities |-> EmptyDict]
  /\ uploaded = [m \in Modalities |-> EmptyDict]
  /\ idx = 1
  /\ listener_profile = None
  /\ conversation_goal = NoGoal
  /\ recsys_chat = NoSession
  /\ listener_chat = NoSession
  /\ recsys_llm = NewComponent
  /\ listener_llm = NewComponent
  /\ conversation = <<>>
  /\ available = <<>>
  /\ listener_turn = NoTurn
  /\ turn_num = 0
  /\ call = NoCall
  /\ log = <<>>
  /\ last_op = NoOp
  /\ workers = 0
  /\ run = 0
  /\ rng = 0
  /\ parallel = FALSE
  /\ th = [c \in Conversations |-> NewConversation]

\* a reply text of one block per expected field, not parsed yet
ParserInit ==
  /\ OrchestratorIdle
  /\ \E keys \in {<<"thought", "message">>, <<"thought", "track_id", "message">>} :
     \E bs \in BlockLists(keys) :
       /\ text = TextOf(bs)
       /\ expected_keys = keys
       /\ blocks = bs
  /\ result = EmptyDict
  /\ fenced_result = EmptyDict
  /\ response = NoResponse
  /\ usage = Return(DefaultTokenUsage)
  /\ applied = {}

ParserNext ==
  \/ Parse
  \/ ParseFenced

ParserSpec == ParserInit /\ [][ParserNext]_vars

\* a response whose token usage has not been extracted yet
UsageInit ==
  /\ OrchestratorIdle
  /\ text = <<>>
  /\ expected_keys = <<>>
  /\ blocks = <<>>
  /\ result = EmptyDict
  /\ fenced_result = EmptyDict
  /\ response \in Responses
  /\ usage = Return(DefaultTokenUsage)
  /\ applied = {}

UsageSpec == UsageInit /\ [][ExtractUsage]_vars

(* --------------------------- specification ----------------------------- *)
Init ==
  /\ liked \in Likeds
  /\ pool \in Pools
  /\ num_turns \in NumTurnsChoices
  /\ artifacts \in ArtifactChoices
  /\ pc = "idle"
  /\ error = "none"
  /\ cache = [m \in Modalities |-> EmptyDict]
  /\ uploaded = [m \in Modalities |-> EmptyDict]
  /\ idx = 1
  /\ listener_profile = None
  /\ conversation_goal = NoGoal
  /\ recsys_chat = NoSession
  /\ listener_chat = NoSession
  /\ recsys_llm = NewComponent
  /\ listener_llm = NewComponent
  /\ conversation = <<>>
  /\ available = <<>>
  /\ listener_turn = NoTurn
  /\ turn_num = 0
  /\ call = NoCall
  /\ log = <<>>
  /\ last_op = NoOp
  /\ workers = 0
  /\ run = 0
  /\ rng = 0
  /\ parallel = FALSE
  /\ th = [c \in Conversations |-> NewConversation]
  /\ UtilsIdle

Next ==
  \/ Generate
  \/ BatchUploadSkip
  \/ UploadFile
  \/ UploadReturn
  \/ BatchUploadDone
  \/ ProfileRequest
  \/ ProfileReturn
  \/ GoalRequest
  \/ GoalReturn
  \/ InitializeRecsysSession
  \/ RecsysSetupReturn
  \/ InitializeListenerSession
  \/ ListenerSetupReturn
  \/ StartConversation
  \/ OpeningReturn
  \/ LoopExit
  \/ RecsysRequest
  \/ RecsysReturn
  \/ ReactionReturn
  \/ WorkerFinish
  \/ TimeoutExpires
  \/ TimeoutRaised
  \/ DirectRequest
  \/ DirectReturn

Spec == Init /\ [][Next]_vars

\* the uploads only: repeated batch_upload_tracks calls on the two processors
UploadNext ==
  \/ Generate
  \/ BatchUploadSkip
  \/ UploadFile
  \/ UploadReturn
  \/ BatchUploadDone
  \/ UploadAgain
  \/ WorkerFinish
  \/ TimeoutExpires
  \/ TimeoutRaised

UploadSpec == Init /\ [][UploadNext]_vars

\* one generate call, run by a thread that keeps stepping while it can and whose
\* model and upload calls all return
RunNext ==
  \/ Generate
  \/ BatchUploadSkip
  \/ UploadFile
  \/ UploadReturn
  \/ BatchUploadDone
  \/ ProfileRequest
  \/ ProfileReturn
  \/ GoalRequest
  \/ GoalReturn
  \/ InitializeRecsysSession
  \/ RecsysSetupReturn
  \/ InitializeListenerSession
  \/ ListenerSetupReturn
  \/ StartConversation
  \/ OpeningReturn
  \/ LoopExit
  \/ RecsysRequest
  \/ RecsysReturn
  \/ ReactionReturn
  \/ WorkerFinish
  \/ TimeoutExpires
  \/ TimeoutRaised

RunSpec == Init /\ [][RunNext]_vars /\ WF_vars(RunNext)

\* the caller may call generate this many times on one orchestrator
MaxRuns == 2

\* generate called again on the same orchestrator, with the same arguments,
\* after the previous call returned or raised: the locals of the previous call
\* are gone, the objects built in __init__ are the same
GenerateAgain ==
  /\ pc \in {"done", "failed"}
  /\ call = NoCall
  /\ run < MaxRuns
  /\ pc' = "upload_audio"
  /\ idx' = 1
  /\ uploaded' = [m \in Modalities |-> EmptyDict]
  /\ listener_profile' = None
  /\ conversation_goal' = NoGoal
  /\ conversation' = <<>>
  /\ available' = <<>>
  /\ listener_turn' = NoTurn
  /\ turn_num' = 0
  /\ error' = "none"
  /\ log' = <<>>
  /\ last_op' = Op("generate", NewComponent)
  /\ UNCHANGED <<inputs, cache, sessions, components, call>>
  /\ workers' = workers + Started
  /\ run' = run + 1
  /\ UNCHANGED <<sampler, utils>>

RerunNext ==
  \/ RunNext
  \/ GenerateAgain

RerunSpec == Init /\ [][RerunNext]_vars

(* ============================== claims ================================= *)
NonNull(turns) == {i \in 1..Len(turns) : turns[i].recsys_turn.track # None}
Nulls(turns) == {i \in 1..Len(turns) : turns[i].recsys_turn.track = None}

\* C1: in a conversation produced by generate, whatever the recsys model
\* replies, no track_id is referenced by more than one RecsysTurn with a
\* non-null track.
C1_NoTrackTwice ==
  \A i, j \in NonNull(conversation) :
    i # j => conversation[i].recsys_turn.track # conversation[j].recsys_turn.track

\* a finished conversation with two recommendations and, after the first of
\* them, a turn whose reply matched nothing in the working pool
C1_Witness ==
  /\ pc = "done"
  /\ Cardinality(NonNull(conversation)) >= 2
  /\ \E i \in NonNull(conversation), j \in Nulls(conversation) : i < j

\* C2: at every point of generate the turn numbers of the appended
\* ConversationTurns are exactly 1..M in order, for some M <= N.
C2_TurnNumbersContiguous ==
  \E M \in NumTurnsChoices :
    /\ M <= num_turns
    /\ [i \in 1..Len(conversation) |-> conversation[i].turn_number] = [i \in 1..M |-> i]

\* a returned conversation of at least two turns, one of them without a track
C2_Witness ==
  /\ pc = "done"
  /\ Len(conversation) >= 2
  /\ Nulls(conversation) # {}

\* number of distinct track ids of the pool
PoolIdCount == Cardinality({pool[i] : i \in 1..Len(pool)})

\* C3 as stated: with a pool of P tracks and a budget N > P, generation
\* stops after turn P.
C3_Original ==
  (pc = "done" /\ num_turns > Len(pool)) => Len(conversation) = Len(pool)

\* C3 amended: with P distinct track ids in the pool and a budget N > P, a
\* finished generate never requested a turn on an empty pool: either the
\* pool was exhausted by the last turn, after P recommendations and F turns
\* without a track (turn P when F = 0), or the budget ran out at turn N.
C3_StopsAtExhaustion ==
  (pc = "done" /\ num_turns > PoolIdCount) =>
    /\ IF available = <<>>
       THEN /\ Len(conversation) = PoolIdCount + Cardinality(Nulls(conversation))
            /\ conversation # <<>> => Len(conversation) \in NonNull(conversation)
       ELSE Len(conversation) = num_turns
    /\ Nulls(conversation) = {} => Len(conversation) = PoolIdCount

\* two tracks, a budget of three, and a conversation of two turns
C3_Witness ==
  /\ pc = "done"
  /\ Len(pool) = 2
  /\ pool[1] # pool[2]
  /\ num_turns = 3
  /\ Len(conversation) = 2
  /\ Nulls(conversation) = {}

\* the recsys reply in hand names no track of the working pool
NoMatchPending ==
  /\ Returned("recsys")
  /\ call.resp.kind = "ok"
  /\ \A i \in 1..Len(available) : available[i] # call.resp.val

\* C4: when a recsys reply names an id that is not in the working pool, the
\* turn is appended with track = null, success = false and the
\* no-matching-track code, the working pool is unchanged, and generate goes
\* on to the next turn number without failing.
C4_NoMatchContinues ==
  [][NoMatchPending =>
       /\ conversation' =
            Append(conversation,
                   ConversationTurn(turn_num, listener_turn,
                                    RecsysTurn(turn_num, "No match", None, "No track found",
                                               FALSE, NO_TRACK_FOUND)))
       /\ available' = available
       /\ pc' = "loop"
       /\ error' = error
       /\ call' = NoCall
       /\ turn_num' = turn_num + 1
       /\ (turn_num' <= num_turns => available' # <<>>)]_vars

\* after a recommendation, a turn without a track has been appended and the
\* loop is at the next turn number with tracks left
C4_Witness ==
  /\ pc = "loop"
  /\ call = NoCall
  /\ Len(conversation) >= 2
  /\ Len(conversation) \in Nulls(conversation)
  /\ conversation[Len(conversation)].recsys_turn.code = NO_TRACK_FOUND
  /\ ~conversation[Len(conversation)].recsys_turn.success
  /\ (Len(conversation) - 1) \in NonNull(conversation)
  /\ turn_num = Len(conversation) + 1
  /\ turn_num <= num_turns
  /\ available # <<>>

\* C5 as stated: ConversationTurn k pairs the recsys turn of iteration k with
\* the listener turn generated for turn number k, reacting to turn k-1.
C5_Original ==
  \A k \in 1..Len(conversation) :
    /\ conversation[k].recsys_turn.turn_number = k
    /\ conversation[k].listener_turn.turn_number = k
    /\ conversation[k].listener_turn.reacts_to =
         IF k = 1 THEN None ELSE conversation[k - 1].recsys_turn.track

\* the last turn before k that recommended a track, 0 if there is none
LastRecommendation(turns, k) ==
  LET before == {j \in NonNull(turns) : j < k}
  IN  IF before = {} THEN 0 ELSE CHOOSE j \in before : \A i \in before : i <= j

\* C5 amended: ConversationTurn k pairs the recsys turn of iteration k with
\* the latest listener turn: the reaction to the last recommendation made
\* before turn k, numbered one more than that turn, or the opening turn if no
\* track was recommended before k.
C5_PairsLatestListenerTurn ==
  \A k \in 1..Len(conversation) :
    LET j == LastRecommendation(conversation, k)
    IN  /\ conversation[k].recsys_turn.turn_number = k
        /\ conversation[k].listener_turn =
             IF j = 0 THEN ListenerTurn(1, None)
             ELSE ListenerTurn(j + 1, conversation[j].recsys_turn.track)

\* turn 1 recommends, turn 2 does not, and turn 3 is paired with the
\* reaction generated for turn 2
C5_Witness ==
  /\ Len(conversation) >= 3
  /\ 1 \in NonNull(conversation)
  /\ 2 \in Nulls(conversation)
  /\ conversation[3].listener_turn.turn_number = 2

\* C6: whenever generate finishes normally with M appended turns for a budget
\* N >= 0, either M = N or the working pool is empty.
C6_ExitReason ==
  (pc = "done" /\ num_turns >= 0) =>
    (Len(conversation) = num_turns \/ available = <<>>)

\* the budget ran out with tracks left
C6_Witness ==
  /\ pc = "done"
  /\ num_turns >= 2
  /\ Len(conversation) = num_turns
  /\ available # <<>>

Count(e) == Cardinality({i \in 1..Len(log) : log[i] = e})

TurnRequests == {"opening", "recsys", "reaction"}

\* position of an event in the order of generate's phases
Rank(e) ==
  CASE e \in {"upload_audio", "upload_image"} -> 0
    [] e = "profile" -> 1
    [] e = "goal" -> 2
    [] e \in {"recsys_create", "recsys_setup", "listener_create", "listener_setup"} -> 3
    [] e = "opening" -> 4
    [] OTHER -> 5

Before(a, b) ==
  \A j \in 1..Len(log) : log[j] = b => \E i \in 1..(j - 1) : log[i] = a

\* C7: in every run of generate the phases occur in the order profile
\* derivation, goal derivation, initialization of both sessions, listener
\* opening turn, turn loop; each session is initialized exactly once in the
\* run and before any turn request is sent on it.
C7_PhaseOrder ==
  /\ \A i, j \in 1..Len(log) : i < j => Rank(log[i]) <= Rank(log[j])
  /\ \A e \in {"profile", "goal", "recsys_create", "recsys_setup", "listener_create",
                "listener_setup", "opening"} : Count(e) <= 1
  /\ Before("recsys_create", "recsys_setup")
  /\ Before("listener_create", "listener_setup")
  /\ pc \in {"start", "opening", "loop", "done"} =>
       \A e \in {"profile", "goal", "recsys_create", "recsys_setup", "listener_create"} :
         Count(e) = 1
  /\ Before("recsys_create", "recsys")
  /\ Before("listener_create", "opening")
  /\ Before("listener_create", "reaction")
  /\ call.site = "recsys" =>
       (recsys_chat # NoSession /\ recsys_llm.chat_session = recsys_chat)
  /\ call.site \in {"opening", "reaction"} =>
       (listener_chat # NoSession /\ listener_llm.chat_session = listener_chat)

\* a run that went through every phase, the listener setup message and a
\* reaction included
C7_Witness ==
  /\ pc = "done"
  /\ Count("listener_setup") = 1
  /\ Count("recsys") >= 2
  /\ Count("reaction") >= 1

\* C8: a turn request on a component whose session was never installed raises
\* before any model call is issued, is not retried, and leaves the
\* component's last_prompt and last_token_usage unchanged.
C8_UninitializedSessionFatal ==
  (last_op.method \in Methods /\ last_op.state_was.chat_session = NoSession) =>
    /\ error = "UninitializedSession"
    /\ call = NoCall
    /\ pc \in {"idle", "failed"}
    /\ ComponentOf(last_op.method) = last_op.state_was

\* a recommendation was requested after a generate that failed before the
\* sessions were installed
C8_Witness ==
  /\ pc = "failed"
  /\ recsys_chat # NoSession
  /\ last_op.method = "get_recommendation_with_thought"
  /\ error = "UninitializedSession"

\* C9: when the recommendation pool is empty from the start, generate fails
\* before either session is initialized: no session is created, no setup
\* message or turn request is issued, and generate does not return normally.
C9_EmptyPoolFailsFast ==
  pool = <<>> =>
    /\ recsys_chat = NoSession
    /\ listener_chat = NoSession
    /\ \A i \in 1..Len(log) :
         log[i] \notin {"recsys_setup", "listener_setup"} \cup TurnRequests
    /\ pc # "done"

\* C10: once the timeout of call_with_timeout has elapsed the caller is not
\* kept waiting for a worker that is still running.
C10_CallerRegainsControl ==
  ~(call.phase = "shutdown_wait" /\ call.worker = "running")

\* C11: at every moment at most one model or upload call is executing, the
\* moments after a call's wait ended in a timeout included (in a generate
\* run, and for the turn requests made on its components afterwards), and
\* the call executing is the one the caller is waiting for.
C11_OneCallAtATime ==
  /\ workers <= 1
  /\ workers = 1 <=> call.worker = "running"

\* the wait for a recsys reply timed out after a turn was recorded, and the
\* timed-out call is still executing
C11_Witness ==
  /\ call.site = "recsys"
  /\ call.phase = "shutdown_wait"
  /\ call.worker = "running"
  /\ workers = 1
  /\ Len(conversation) >= 1

\* C12: a timeout of a turn request (the opening turn, a recommendation or a
\* reaction) does not end the conversation: generate does not fail with it.
C12_TimeoutNonFatal ==
  ~(/\ pc = "failed"
    /\ error = "Timeout"
    /\ log # <<>>
    /\ log[Len(log)] \in TurnRequests)

\* C13: every model or upload call of generate is waited for with a bound:
\* none is made outside call_with_timeout.
C13_EveryCallBounded ==
  call.site \in GenerateSites => call.phase # "plain_wait"

\* C14: over repeated upload_file and batch_upload_tracks calls on the
\* processors, an upload is only issued for a key the cache does not hold;
\* a key that holds a handle keeps that handle for good; every handle a
\* batch returns for a track is the cached one; and an upload that fails or
\* times out leaves the cache unchanged.
C14_CacheWriteOnce ==
  [][/\ \A m \in Modalities : \A t \in DOMAIN cache[m] :
          t \in DOMAIN cache'[m] /\ cache'[m][t] = cache[m][t]
     /\ (call'.site = "upload" /\ pc' # "failed") =>
          AllTracks[idx'] \notin DOMAIN cache'[ModalityOf(pc')]
     /\ \A m \in Modalities : \A t \in DOMAIN uploaded'[m] :
          t \in DOMAIN cache'[m] /\ uploaded'[m][t] = cache'[m][t]
     /\ (call.site = "upload" /\ pc' = "failed") => cache' = cache]_vars

\* a later batch got a cached handle back without uploading, after an upload
\* for another key had failed
C14_Witness ==
  /\ pc = "profile"
  /\ Len(log) = 3
  /\ log[1] = "upload_audio" /\ log[2] = "upload_audio" /\ log[3] = "upload_audio"
  /\ DOMAIN uploaded["audio"] = {"t1", "t2"}
  /\ uploaded["audio"]["t1"] = <<1, 1>>
  /\ uploaded["audio"]["t2"] = <<1, 3>>

Sampled(c) == th[c].pc \in {"sampled", "derived"}

\* what sample_conversation_goals(seed, num_goals) returns when nothing else
\* touches the generator during the call
Alone(seed, num_goals) ==
  LET taken == Take(Shuffle(Selectable, SeedState(seed), Len(Selectable)).list, num_goals)
  IN  [i \in 1..Len(taken) |-> from_codes(taken[i][1], taken[i][2])]

\* C15: under every interleaving of the steps of two conversations, the goal
\* candidates of each are those it gets when it runs alone with its seed.
C15_ConversationsIndependent ==
  \A c \in Conversations :
    Sampled(c) => th[c].candidates = Alone(th[c].seed, th[c].num_goals)

\* C16: two calls of sample_conversation_goals with the same seed and the
\* same num_goals, neither overlapping another use of the generator, return
\* the same goals in the same order, whatever state the generator was in
\* before each of them.
C16_SameSeedSameGoals ==
  ~parallel =>
    \A c, d \in Conversations :
      (/\ Sampled(c) /\ Sampled(d)
       /\ th[c].seed = th[d].seed
       /\ th[c].num_goals = th[d].num_goals) => th[c].candidates = th[d].candidates

\* both conversations sampled three goals with seed 42, the second after the
\* first one's shuffle had advanced the generator
C16_Witness ==
  /\ ~parallel
  /\ \A c \in Conversations :
       Sampled(c) /\ th[c].seed = 42 /\ th[c].num_goals = GOALS_TO_SAMPLE
  /\ th[1].candidates = th[2].candidates
  /\ Len(th[1].candidates) = GOALS_TO_SAMPLE
  /\ rng # SeedState(42)

\* the goals are pairwise distinct, none has a sentinel code, each is resolved
\* from the catalog entry of its codes, and they come in the order of the
\* shuffled cross-product
SampleWellFormed(c) ==
  LET goals == th[c].candidates
  IN  /\ \A i, j \in 1..Len(goals) :
            i # j => <<goals[i].category_code, goals[i].specificity_code>> #
                     <<goals[j].category_code, goals[j].specificity_code>>
      /\ \A i \in 1..Len(goals) :
            /\ goals[i].category_code \in CategoryCodes \ {"UNKNOWN"}
            /\ goals[i].specificity_code \in SpecificityCodes \ {"UNKNOWN"}
            /\ goals[i].entry = <<goals[i].category_code, goals[i].specificity_code>>
            /\ goals[i].entry \in Catalog
            /\ goals[i].success
            /\ i <= Len(th[c].shuffled)
            /\ goals[i].entry = th[c].shuffled[i]

\* C17 as stated: for every seed and every k >= 1 exactly k goals are
\* returned, pairwise distinct, without sentinel codes, resolved from the
\* catalog, in the order selected.
C17_Original ==
  \A c \in Conversations :
    Sampled(c) => (Len(th[c].candidates) = th[c].num_goals /\ SampleWellFormed(c))

\* C17 amended: for every seed and every k >= 1 the call returns min(k, 44)
\* goals (all 44 pairs of the cross-product when k exceeds it), pairwise
\* distinct, without sentinel codes, each resolved from the catalog, in the
\* order selected.
C17_SampleSizeAndShape ==
  \A c \in Conversations :
    Sampled(c) =>
      /\ th[c].num_goals >= 1
      /\ Len(th[c].candidates) =
           IF th[c].num_goals < Len(Selectable) THEN th[c].num_goals ELSE Len(Selectable)
      /\ SampleWellFormed(c)

\* one call asked for more goals than there are pairs and got them all,
\* another asked for three
C17_Witness ==
  /\ Sampled(1) /\ Sampled(2)
  /\ th[1].num_goals = Len(Selectable) + 1
  /\ Len(th[1].candidates) = Len(Selectable)
  /\ th[2].num_goals = GOALS_TO_SAMPLE
  /\ Len(th[2].candidates) = GOALS_TO_SAMPLE

\* C18: a call of sample_conversation_goals with num_goals <= 0 raises
\* without reseeding or advancing the generator, without a catalog lookup
\* and without a result; a call that goes on to sample has num_goals >= 1.
C18_RejectBeforeSampling ==
  [][\A c \in Conversations :
       (th[c].pc = "ready" /\ th'[c].pc \in {"raised", "seeded"}
        /\ th'[c].category = None) =>
         IF th'[c].num_goals <= 0
         THEN /\ th'[c].pc = "raised"
              /\ th'[c].error = "ValueError"
              /\ rng' = rng
              /\ th'[c].lookups = th[c].lookups
              /\ th'[c].candidates = <<>>
         ELSE th'[c].pc = "seeded"]_vars

\* a call with seed 42 and num_goals = 0 was rejected and the generator
\* still is as the constructor with seed 7 left it
C18_Witness ==
  /\ th[1].pc = "raised"
  /\ th[1].seed = 42
  /\ th[1].num_goals = 0
  /\ th[2].pc = "new"
  /\ rng = SeedState(7)

\* the canonical UNKNOWN instance, or a goal resolved from the one catalog
\* entry of its codes
ResolvedOrUnknown(g) ==
  \/ g = UnknownGoal
  \/ /\ g.category_code \in CategoryCodes \ {"UNKNOWN"}
     /\ g.specificity_code \in SpecificityCodes \ {"UNKNOWN"}
     /\ g.entry = <<g.category_code, g.specificity_code>>
     /\ g.entry \in Catalog
     /\ g.success

\* C19: every goal produced by from_codes, sample_conversation_goals or goal
\* derivation is the canonical UNKNOWN instance or resolved from one catalog
\* entry; from_codes with a sentinel code returns the canonical UNKNOWN
\* instance without raising, and no catalog lookup uses a sentinel key.
C19_ResolvedOrUnknown ==
  \A c \in Conversations :
    /\ th[c].pc \in {"converted", "derived"} => ResolvedOrUnknown(th[c].goal)
    /\ \A i \in 1..Len(th[c].candidates) : ResolvedOrUnknown(th[c].candidates[i])
    /\ (/\ th[c].pc \in {"converted", "raised"}
        /\ "UNKNOWN" \in {th[c].category, th[c].specificity}) =>
         (th[c].pc = "converted" /\ th[c].goal = UnknownGoal)
    /\ \A key \in th[c].lookups : key[1] # "UNKNOWN" /\ key[2] # "UNKNOWN"

\* from_codes returned the canonical UNKNOWN instance for (A, UNKNOWN) without
\* a lookup, and a resolved goal for (K, HL)
C19_Witness ==
  /\ th[1].pc = "converted"
  /\ th[1].category = "A" /\ th[1].specificity = "UNKNOWN"
  /\ th[1].goal = UnknownGoal
  /\ th[1].lookups = {}
  /\ th[2].pc = "converted"
  /\ th[2].goal.entry = <<"K", "HL">>
  /\ th[2].lookups = {<<"K", "HL">>}

C21_IllFormedReplyNeverAborts ==
  ~(pc = "failed" /\ error = "TypeError")

\* ids recommended so far in the conversation
Recommended == {conversation[i].recsys_turn.track : i \in NonNull(conversation)}

\* C22: generate never changes the caller's pool, and from the start of the
\* conversation on the working pool is the original pool without the tracks
\* whose ids were recommended, in the original order; so it never grows and
\* no removed track comes back.
C22_WorkingPool ==
  [][/\ pool' = pool
     /\ Count("opening")' >= 1 =>
          /\ available' = SelectSeq(pool, LAMBDA t : t \notin Recommended')
          /\ Count("opening") >= 1 =>
               /\ Len(available') <= Len(available)
               /\ \A t \in TrackIds :
                    (\A i \in 1..Len(available) : available[i] # t) =>
                    (\A i \in 1..Len(available') : available'[i] # t)]_vars

\* a track was removed, a later reply named it again and was not matched,
\* and another track is still left
C22_Witness ==
  /\ Len(conversation) >= 2
  /\ 1 \in NonNull(conversation)
  /\ 2 \in Nulls(conversation)
  /\ Len(pool) = 2
  /\ Len(available) = 1
  /\ pool[1] # pool[2]

\* C26 as stated: every listener turn generate requested is paired in exactly
\* one ConversationTurn of the returned conversation.
C26_Original ==
  pc = "done" =>
    /\ \A i, j \in 1..Len(conversation) :
         i # j => conversation[i].listener_turn # conversation[j].listener_turn
    /\ \E i \in 1..Len(conversation) : conversation[i].listener_turn = listener_turn

\* C26 amended: in the returned conversation, the reaction requested after a
\* recommendation at turn k is the listener turn of ConversationTurn k+1 when
\* that turn exists, a turn without a track hands its listener turn on to the
\* next ConversationTurn as well, and the reaction requested after the last
\* recorded turn, when the pool ran out before the budget, is paired nowhere.
C26_ReactionPairedNext ==
  pc = "done" =>
    /\ \A k \in 1..(Len(conversation) - 1) :
         conversation[k + 1].listener_turn =
           IF k \in NonNull(conversation)
           THEN ListenerTurn(k + 1, conversation[k].recsys_turn.track)
           ELSE conversation[k].listener_turn
    /\ (/\ conversation # <<>>
        /\ Len(conversation) \in NonNull(conversation)
        /\ Len(conversation) < num_turns) =>
         /\ listener_turn =
              ListenerTurn(Len(conversation) + 1,
                           conversation[Len(conversation)].recsys_turn.track)
         /\ \A i \in 1..Len(conversation) : conversation[i].listener_turn # listener_turn
    /\ Count("reaction") =
         Cardinality({k \in NonNull(conversation) : k < num_turns})

\* a returned conversation in which the opening turn is paired twice and the
\* last reaction is paired nowhere
C26_Witness ==
  /\ pc = "done"
  /\ Len(conversation) = 2
  /\ num_turns = 3
  /\ 1 \in Nulls(conversation)
  /\ 2 \in NonNull(conversation)
  /\ conversation[2].listener_turn = conversation[1].listener_turn
  /\ listener_turn.turn_number = 3

C29_Max(a, b) == IF a >= b THEN a ELSE b

C29_TerminatesWithinBudget ==
  /\ (pc # "idle") ~> (pc \in {"done", "failed"})
  /\ [](/\ Count("recsys") <= C29_Max(num_turns, 0)
        /\ Count("opening") <= 1
        /\ Count("reaction") <= C29_Max(num_turns - 1, 0)
        /\ Count("opening") + Count("reaction") <= C29_Max(num_turns, 1))

\* a finished call with the largest budget that used up its listener requests:
\* the opening request and one reaction fewer than the budget
C29_Witness ==
  /\ pc = "done"
  /\ num_turns = MaxTurns
  /\ Count("opening") = 1
  /\ Count("reaction") = num_turns - 1
  /\ Count("recsys") >= num_turns - 1

C28_Enclosed(v) == Len(v) >= 2 /\ Head(v) \in Quotes /\ v[Len(v)] \in Quotes

C28_StripPair(v) == IF C28_Enclosed(v) THEN SubSeq(v, 2, Len(v) - 1) ELSE v

\* the value of a block as the caller is to receive it: without the pair of
\* quote characters that encloses it, on a single line with single spaces
C23_Own(v) == OneLine(C28_StripPair(Strip(v)))

\* C23: for a text of one `<field>: value` block per expected field, labels at
\* line starts, in any order, the dict returned maps every field to its own
\* value on a single line with single spaces, so that no value takes in the
\* label or the value of a field that comes after it
C23_EveryFieldItsOwnValue ==
  "parse" \in applied =>
    \A i \in DOMAIN blocks :
      /\ blocks[i].field \in DOMAIN result
      /\ result[blocks[i].field] = C23_Own(blocks[i].value)

C24_Fences(s) == Cardinality({i \in DOMAIN s : s[i] = FENCE})

\* C24: the dict returned for a text inside a fenced block is the dict
\* returned for the text itself, and only the leading and the trailing fence
\* marker are stripped: a fence marker inside the value of a field is still
\* in the value returned
C24_FenceWrapperOnly ==
  /\ {"parse", "parse_fenced"} \subseteq applied => fenced_result = result
  /\ \A m \in {"parse", "parse_fenced"} :
       m \in applied =>
         \A i \in DOMAIN blocks :
           LET returned == IF m = "parse" THEN result ELSE fenced_result
           IN  /\ blocks[i].field \in DOMAIN returned
               /\ C24_Fences(returned[blocks[i].field]) = C24_Fences(blocks[i].value)

\* C25: extract_detailed_token_usage never raises, and returns the all-zero
\* TokenUsage whenever the usage metadata is unavailable: no response, a
\* response that cannot be converted, no usage_metadata in it, or a
\* usage_metadata whose processing fails
C25_Unavailable(r) ==
  \/ r.kind # "converted"
  \/ r.usage_metadata # "dict"
  \/ DOMAIN r.fields = {}
  \/ \E i \in DOMAIN Get(r.fields, "prompt_tokens_details", <<>>) :
       r.fields.prompt_tokens_details[i] = NotADict

C25_ZeroWhenUnavailable ==
  "usage" \in applied =>
    /\ ~usage.raised
    /\ C25_Unavailable(response) => usage.value = DefaultTokenUsage

\* the metadata lists 5 audio tokens and then an item that is not a dict: the
\* count already added up is dropped and the all-zero usage is returned
C25_Witness ==
  /\ "usage" \in applied
  /\ response.kind = "converted"
  /\ response.usage_metadata = "dict"
  /\ "prompt_tokens_details" \in DOMAIN response.fields
  /\ response.fields.prompt_tokens_details =
       <<[modality |-> "AUDIO", token_count |-> 5], NotADict>>
  /\ ~usage.raised
  /\ usage.value = DefaultTokenUsage

C28_Quotes(s) == Cardinality({i \in DOMAIN s : s[i] \in Quotes})

\* C28: the value returned for a field has lost two quote characters, one from
\* each end, when the value starts and ends with a quote character, and no
\* quote character otherwise: a quote at one end only is kept
C28_QuotesStrippedInPairs ==
  "parse" \in applied =>
    \A i \in DOMAIN blocks :
      LET v == Strip(blocks[i].value)
      IN  /\ blocks[i].field \in DOMAIN result
          /\ C28_Quotes(result[blocks[i].field]) =
               C28_Quotes(v) - (IF C28_Enclosed(v) THEN 2 ELSE 0)

====
